---- MODULE Spec2Model ----
(***************************************************************************)
(* TaskQueue (core/services/task_queue.py) over the task-record collection *)
(* (core/db/in_memory_mongo.py), run by a single asyncio event loop.       *)
(*                                                                         *)
(* One step of the model is one run of a coroutine between two suspension  *)
(* points.  Every `await` of a collection operation and of the unit of     *)
(* work / callback is a suspension point: the write is applied when the    *)
(* operation is issued and the coroutine resumes in a later step.          *)
(* Task.cancel() marks the task; the CancelledError is thrown into the     *)
(* coroutine at the suspension point where its next step resumes.          *)
(* CancelledError is a BaseException: `except Exception` does not catch    *)
(* it, `finally` runs.                                                     *)
(*                                                                         *)
(* DocumentProcessor (core/services/document_processor.py) is synchronous: *)
(* create_chunks is stepped one loop iteration at a time, so that a loop   *)
(* that does not end shows; analyze_document runs from its entry to the    *)
(* call of create_chunks and from the return of create_chunks to its own   *)
(* return; the searches are single steps.  Texts are sequences of          *)
(* characters, the dicts are sequences in insertion order.                 *)
(* query_document is a single step; what its collaborators (embeddings,    *)
(* completions) answer, and which of their calls raises, are inputs.       *)
(*                                                                         *)
(* reprocess_document (core/api/documents.py) and shutdown_services        *)
(* (core/main.py) are run on the same event loop as the tasks they create  *)
(* and cancel; they call add_task and cancel_task of the TaskQueue above.  *)
(***************************************************************************)
EXTENDS Integers, Sequences, FiniteSets, TLC

\* ------------------------------------------------------------------ bounds
NumCallers == 1
MaxNow == 11
MaxTextLen == 5
MaxWindow == 3
MaxChunks == 4
MaxIngestions == 2
MaxK == 2
MaxStored == 2

\* task ids are uuid4 strings; two tasks run under Spec, three records are
\* stored under SpecCleanup
TaskIds == {"a", "b"}
RecordIds == TaskIds \cup {"c"}
Callers == 1..NumCallers
\* cleanup_old_tasks: the days arguments and the record ages tried
Days == {1, 7}
UpdatedAts == {0, 9, 10}

\* ------------------------------------------------------------- value sets
None == "None"
Absent == "absent"
Results == {None, "r1"}
WorkError == "boom"
CallbackError == "cbfail"
TerminalStatuses == {"completed", "error", "cancelled"}
Statuses == {"pending", "running"} \cup TerminalStatuses
\* reply before the first get_task_status
NoReply == [task_id |-> "a", raised |-> "none", task |-> {}]
\* cleanup_log before the first cleanup_old_tasks
NoCleanup == [cutoff |-> 0, deleted_count |-> -1]

VARIABLES
  now,          \* datetime.utcnow(), in days
  records,      \* db.tasks: task_id -> record, for the ids that have one
  tasks,        \* TaskQueue.tasks: ids with an execution handle
  callbacks,    \* TaskQueue.callbacks: ids with a registered callback
  addpc,        \* position of add_task(id, ...)
  add_cb,       \* the callback argument of add_task(id, ...)
  pc,           \* position of the asyncio task running _run_task(id, ...)
  must_cancel,  \* Task.cancel() was requested and not yet delivered
  result,       \* the local variable `result` of _run_task
  cpc,          \* position of each caller's cancel_task call
  ctarget,      \* the task_id argument of each caller's cancel_task call
  clog,         \* what each caller's last cancel_task logged / raised
  reply,        \* what the last get_task_status returned / raised
  cleanup_log,  \* what the last cleanup_old_tasks logged
  hist,         \* history: statuses written to each record, in order
  work_outcome, \* history: how the unit of work ended
  cancel_req,   \* history: Task.cancel() was ever called on the task
  cb_log,       \* history: callback invocations
  settings,     \* config/settings.py: MAX_CHUNK_SIZE and OVERLAP_SIZE
  text,         \* create_chunks: the argument `text`, a sequence of characters
  start,        \* create_chunks: the local variable `start`
  chunks,       \* create_chunks: the local list `chunks`
  cc_pc,        \* create_chunks: "idle", "loop" or "returned"
  knowledge_graph,  \* DocumentProcessor.knowledge_graph, in insertion order
  embeddings_store, \* DocumentProcessor.embeddings_store, in insertion order
  document_store,   \* DocumentProcessor.document_store, in insertion order
  analysis,     \* analyze_document: position, arguments and result of the call
  search_log,   \* what the last search was asked and what it returned
  market_data_cache, \* DocumentProcessor.market_data_cache, in insertion order
  query_log,    \* what the last query_document was asked and what it did
  doc_task,     \* db.documents: the task_id field of the document
  req_pc,       \* position of each reprocess_document request
  req_task,     \* the task_id of the document each request has read
  ing_pc,       \* position of each task's unit of work in analyze_document
  sd_pc,        \* position of shutdown_services
  sd_targets    \* the keys of task_queue.tasks shutdown_services has listed

\* the state of the DocumentProcessor and of its configuration
docvars == <<settings, text, start, chunks, cc_pc, knowledge_graph,
             embeddings_store, document_store, analysis, search_log,
             market_data_cache, query_log>>

\* the state of the API handlers and of the application
apivars == <<doc_task, req_pc, req_task, ing_pc, sd_pc, sd_targets>>

procvars == <<docvars, apivars>>

\* the state of the TaskQueue and of its collection
queuevars == <<now, records, tasks, callbacks, addpc, add_cb, pc, must_cancel,
               result, cpc, ctarget, clog, reply, cleanup_log, hist,
               work_outcome, cancel_req, cb_log>>

vars == <<queuevars, procvars>>

\* ------------------------------------------------ db.tasks (the collection)
\* insert_one: the record add_task builds
PendingRecord(t) ==
  [task_id |-> t, status |-> "pending", created_at |-> now,
   updated_at |-> now, result |-> Absent, error |-> Absent]

insert_one(recs, t, doc) ==
  [x \in DOMAIN recs \cup {t} |-> IF x = t THEN doc ELSE recs[x]]

\* variant: the update is applied to every record (a query that does not
\* select by task_id)
UpdateEveryRecord(recs, t, status, res, err) ==
  [x \in DOMAIN recs |->
     [recs[x] EXCEPT !.status = status,
                     !.updated_at = now,
                     !.result = IF res # None THEN res ELSE @,
                     !.error = IF err # None THEN err ELSE @]]

\* update_one({"task_id": t}, {"$set": update_data}) with the update_data
\* _update_task_status builds: result / error are set only when not None;
\* no matching record: nothing is written
_update_task_status(recs, t, status, res, err) ==
  IF t \in DOMAIN recs
    THEN [recs EXCEPT ![t] =
            [@ EXCEPT !.status = status,
                      !.updated_at = now,
                      !.result = IF res # None THEN res ELSE @,
                      !.error = IF err # None THEN err ELSE @]]
    ELSE recs

\* variant: no cleanup of the handle
FinallyKeepsHandle(tk, t) == tk

\* the `finally` of _run_task
Finally(tk, t) == IF t \in tk THEN tk \ {t} ELSE tk

TaskDone(t) == pc[t] \in {"done", "cancelled", "cancelled_unstarted"}

\* config/settings.py as shipped
MAX_CHUNK_SIZE == 1000
OVERLAP_SIZE == 100
Configured == [MAX_CHUNK_SIZE |-> MAX_CHUNK_SIZE, OVERLAP_SIZE |-> OVERLAP_SIZE]

\* analysis before the first analyze_document, search_log before the first
\* search
NoContext == [property_type |-> << >>, location |-> << >>, data |-> 0]
NoAnalysis ==
  [pc |-> "none", extracted_data |-> << >>, extractor |-> FALSE,
   market_context |-> NoContext, status |-> "none", chunks |-> 0, count |-> 0]
\* a cosine similarity that was never computed, and query_log before the
\* first query_document
NoScore == [nan |-> FALSE, dot |-> 0, norms |-> 1]
NoQuery ==
  [outcome |-> "none", context_type |-> "none", k |-> 0, failure |-> "none",
   cache_entries |-> 0, vector_results |-> << >>, graph_results |-> << >>,
   similarities |-> << >>, source_documents |-> << >>, doc_scores |-> << >>,
   context |-> << >>, answer |-> << >>, confidence |-> NoScore,
   market_data_used |-> FALSE]
NoSearch ==
  [op |-> "none", entities |-> << >>, embedding |-> <<0, 0>>, k |-> 0,
   ids |-> << >>, vector_results |-> << >>, graph_results |-> << >>,
   result |-> << >>]

\* the reprocess_document requests of the model
Requests == {1, 2}

\* no request yet; the document holds no task_id; the application runs
InitApi ==
  /\ doc_task = Absent
  /\ req_pc = [r \in Requests |-> "idle"]
  /\ req_task = [r \in Requests |-> Absent]
  /\ ing_pc = [t \in TaskIds |-> "none"]
  /\ sd_pc = "running"
  /\ sd_targets = {}

\* DocumentProcessor.__init__: empty stores; no create_chunks call running
InitProcessor ==
  /\ InitApi
  /\ text = << >>
  /\ start = 0
  /\ chunks = << >>
  /\ cc_pc = "idle"
  /\ knowledge_graph = << >>
  /\ embeddings_store = << >>
  /\ document_store = << >>
  /\ analysis = NoAnalysis
  /\ search_log = NoSearch
  /\ market_data_cache = << >>
  /\ query_log = NoQuery

InitQueue ==
  /\ records = << >>
  /\ tasks = {}
  /\ callbacks = {}
  /\ addpc = [t \in TaskIds |-> "idle"]
  /\ add_cb = [t \in TaskIds |-> FALSE]
  /\ pc = [t \in TaskIds |-> "none"]
  /\ must_cancel = [t \in TaskIds |-> FALSE]
  /\ result = [t \in TaskIds |-> None]
  /\ cpc = [c \in Callers |-> "idle"]
  /\ ctarget = [c \in Callers |-> "a"]
  /\ clog = [c \in Callers |-> "none"]
  /\ reply = NoReply
  /\ cleanup_log = NoCleanup
  /\ hist = [t \in TaskIds |-> << >>]
  /\ work_outcome = [t \in TaskIds |-> "none"]
  /\ cancel_req = [t \in TaskIds |-> FALSE]
  /\ cb_log = [t \in TaskIds |-> << >>]

Init ==
  /\ now = 0
  /\ InitQueue
  /\ settings = Configured
  /\ InitProcessor

\* ---------------------------------------------------------------- add_task
\* add_task up to `await self.db.tasks.insert_one(...)`; ids are uuid4, so
\* an id is added once
add_task(t, cb) ==
  /\ addpc[t] = "idle"
  /\ records' = insert_one(records, t, PendingRecord(t))
  /\ hist' = [hist EXCEPT ![t] = Append(@, "pending")]
  /\ add_cb' = [add_cb EXCEPT ![t] = cb]
  /\ addpc' = [addpc EXCEPT ![t] = "insert_one"]
  /\ UNCHANGED <<procvars, now, reply, cleanup_log, tasks, callbacks, pc, must_cancel, result, cpc, ctarget,
                 clog, work_outcome, cancel_req, cb_log>>

\* add_task after the insert: register the callback, create the asyncio
\* task, store the handle
add_task_created(t) ==
  /\ addpc[t] = "insert_one"
  /\ callbacks' = IF add_cb[t] THEN callbacks \cup {t} ELSE callbacks
  /\ tasks' = tasks \cup {t}
  /\ pc' = [pc EXCEPT ![t] = "created"]
  /\ addpc' = [addpc EXCEPT ![t] = "returned"]
  /\ UNCHANGED <<procvars, now, reply, cleanup_log, records, add_cb, must_cancel, result, cpc, ctarget,
                 clog, hist, work_outcome, cancel_req, cb_log>>

\* --------------------------------------------------------------- _run_task
\* CancelledError thrown into _run_task inside its try block: not caught by
\* `except Exception`, the finally clause runs, the asyncio task ends
\* cancelled
RunCancelled(t) ==
  /\ tasks' = Finally(tasks, t)
  /\ pc' = [pc EXCEPT ![t] = "cancelled"]
  /\ must_cancel' = [must_cancel EXCEPT ![t] = FALSE]
  /\ UNCHANGED <<records, hist, callbacks, result, cb_log>>

\* the except clause: _update_task_status(task_id, "error", error=str(e))
RunFailed(t, e) ==
  /\ records' = _update_task_status(records, t, "error", None, e)
  /\ hist' = [hist EXCEPT ![t] = Append(@, "error")]
  /\ pc' = [pc EXCEPT ![t] = "update_error"]
  /\ UNCHANGED <<tasks, must_cancel>>

\* the normal end of the try block followed by finally
RunReturn(t) ==
  /\ tasks' = Finally(tasks, t)
  /\ pc' = [pc EXCEPT ![t] = "done"]
  /\ UNCHANGED <<records, hist, must_cancel>>

\* first step of the asyncio task: a cancel requested before the first step
\* is thrown into the coroutine before its body (and its try) is entered
run_task_start(t) ==
  /\ pc[t] = "created"
  /\ IF must_cancel[t]
       THEN /\ pc' = [pc EXCEPT ![t] = "cancelled_unstarted"]
            /\ must_cancel' = [must_cancel EXCEPT ![t] = FALSE]
            /\ UNCHANGED <<records, hist>>
       ELSE /\ records' = _update_task_status(records, t, "running", None, None)
            /\ hist' = [hist EXCEPT ![t] = Append(@, "running")]
            /\ pc' = [pc EXCEPT ![t] = "update_running"]
            /\ UNCHANGED must_cancel
  /\ UNCHANGED <<procvars, now, reply, cleanup_log, tasks, callbacks, addpc, add_cb, result, cpc, ctarget,
                 clog, work_outcome, cancel_req, cb_log>>

\* resumed after the "running" update: `await coroutine` starts the unit of
\* work, which suspends
run_task_await_coroutine(t) ==
  /\ pc[t] = "update_running"
  /\ IF must_cancel[t]
       THEN RunCancelled(t)
       ELSE /\ pc' = [pc EXCEPT ![t] = "coroutine"]
            /\ UNCHANGED <<records, hist, tasks, callbacks, must_cancel,
                           result, cb_log>>
  /\ UNCHANGED <<procvars, now, reply, cleanup_log, addpc, add_cb, cpc, ctarget, clog, work_outcome,
                 cancel_req>>

\* variant: the callback is invoked before the "completed" update
CallbackBeforeUpdate(t, r) ==
  /\ pc[t] = "coroutine"
  /\ ~must_cancel[t]
  /\ result' = [result EXCEPT ![t] = r]
  /\ cb_log' = [cb_log EXCEPT ![t] =
                  IF t \in callbacks
                    THEN Append(@, [arg |-> r, status |-> records[t].status,
                                    stored |-> records[t].result,
                                    work |-> "returned"])
                    ELSE @]
  /\ records' = _update_task_status(records, t, "completed", r, None)
  /\ hist' = [hist EXCEPT ![t] = Append(@, "completed")]
  /\ pc' = [pc EXCEPT ![t] = "update_completed"]
  /\ work_outcome' = [work_outcome EXCEPT ![t] = "returned"]
  /\ UNCHANGED <<procvars, now, reply, cleanup_log, tasks, callbacks, addpc, add_cb,
                 must_cancel, cpc, ctarget, clog, cancel_req>>

\* the unit of work returns r: _update_task_status(task_id, "completed",
\* result=result)
run_task_completed(t, r) ==
  /\ pc[t] = "coroutine"
  /\ ~must_cancel[t]
  /\ result' = [result EXCEPT ![t] = r]
  /\ records' = _update_task_status(records, t, "completed", r, None)
  /\ hist' = [hist EXCEPT ![t] = Append(@, "completed")]
  /\ pc' = [pc EXCEPT ![t] = "update_completed"]
  /\ work_outcome' = [work_outcome EXCEPT ![t] = "returned"]
  /\ UNCHANGED <<procvars, now, reply, cleanup_log, tasks, callbacks, addpc, add_cb, must_cancel, cpc,
                 ctarget, clog, cancel_req, cb_log>>

\* the unit of work raises an Exception
run_task_raised(t) ==
  /\ pc[t] = "coroutine"
  /\ ~must_cancel[t]
  /\ RunFailed(t, WorkError)
  /\ work_outcome' = [work_outcome EXCEPT ![t] = "raised"]
  /\ UNCHANGED <<procvars, now, reply, cleanup_log, callbacks, addpc, add_cb, result, cpc, ctarget, clog,
                 cancel_req, cb_log>>

\* the unit of work is resumed with the CancelledError and lets it through
run_task_work_cancelled(t) ==
  /\ pc[t] = "coroutine"
  /\ must_cancel[t]
  /\ RunCancelled(t)
  /\ work_outcome' = [work_outcome EXCEPT ![t] = "cancelled"]
  /\ UNCHANGED <<procvars, now, reply, cleanup_log, addpc, add_cb, cpc, ctarget, clog, cancel_req>>

\* what a callback invocation is called with and what the record shows then
CallbackEntry(t) ==
  [arg |-> result[t], status |-> records[t].status,
   stored |-> records[t].result, work |-> work_outcome[t]]

\* resumed after the "completed" update: `if task_id in self.callbacks:
\* await self.callbacks[task_id](result)`; without a callback the try block
\* ends
run_task_callback(t) ==
  /\ pc[t] = "update_completed"
  /\ IF must_cancel[t]
       THEN RunCancelled(t)
       ELSE IF t \in callbacks
         THEN /\ cb_log' = [cb_log EXCEPT ![t] = Append(@, CallbackEntry(t))]
              /\ pc' = [pc EXCEPT ![t] = "callback"]
              /\ UNCHANGED <<records, hist, tasks, callbacks, must_cancel,
                             result>>
         ELSE /\ RunReturn(t)
              /\ UNCHANGED <<callbacks, result, cb_log>>
  /\ UNCHANGED <<procvars, now, reply, cleanup_log, addpc, add_cb, cpc, ctarget, clog, work_outcome,
                 cancel_req>>

\* the callback returns: `del self.callbacks[task_id]`, end of the try block
run_task_callback_returned(t) ==
  /\ pc[t] = "callback"
  /\ IF must_cancel[t]
       THEN RunCancelled(t)
       ELSE /\ callbacks' = callbacks \ {t}
            /\ RunReturn(t)
            /\ UNCHANGED <<result, cb_log>>
  /\ UNCHANGED <<procvars, now, reply, cleanup_log, addpc, add_cb, cpc, ctarget, clog, work_outcome,
                 cancel_req>>

\* the callback raises an Exception: the except clause of _run_task
run_task_callback_raised(t) ==
  /\ pc[t] = "callback"
  /\ ~must_cancel[t]
  /\ RunFailed(t, CallbackError)
  /\ UNCHANGED <<procvars, now, reply, cleanup_log, callbacks, addpc, add_cb, result, cpc, ctarget, clog,
                 work_outcome, cancel_req, cb_log>>

\* resumed after the "error" update of the except clause: finally
run_task_error_done(t) ==
  /\ pc[t] = "update_error"
  /\ IF must_cancel[t]
       THEN RunCancelled(t)
       ELSE /\ RunReturn(t)
            /\ UNCHANGED <<callbacks, result, cb_log>>
  /\ UNCHANGED <<procvars, now, reply, cleanup_log, addpc, add_cb, cpc, ctarget, clog, work_outcome,
                 cancel_req>>

\* ------------------------------------------------------------- cancel_task
\* variant: cancel_task does not write the status
CancelWithoutUpdate(c, t) ==
  /\ UNCHANGED <<records, hist>>
  /\ cpc' = [cpc EXCEPT ![c] = "update_cancelled"]

\* `await self._update_task_status(task_id, "cancelled")`
CancelUpdate(c, t) ==
  /\ records' = _update_task_status(records, t, "cancelled", None, None)
  /\ hist' = [hist EXCEPT ![t] = IF t \in DOMAIN records
                                   THEN Append(@, "cancelled") ELSE @]
  /\ cpc' = [cpc EXCEPT ![c] = "update_cancelled"]

\* variant: the status is written although no handle exists
CancelWarningWrites(c, t) ==
  /\ cpc' = [cpc EXCEPT ![c] = "returned"]
  /\ clog' = [clog EXCEPT ![c] = "warning"]
  /\ records' = _update_task_status(records, t, "cancelled", None, None)
  /\ UNCHANGED <<hist, tasks, callbacks, must_cancel, cancel_req>>

\* the else branch of cancel_task: logger.warning, nothing else
CancelWarning(c, t) ==
  /\ cpc' = [cpc EXCEPT ![c] = "returned"]
  /\ clog' = [clog EXCEPT ![c] = "warning"]
  /\ UNCHANGED <<records, hist, tasks, callbacks, must_cancel, cancel_req>>

\* the if branch of cancel_task up to its first suspension: task.cancel()
\* marks a task that is not done; `await task` suspends unless the task is
\* already done, in which case its CancelledError is swallowed at once and
\* the "cancelled" update is issued
CancelActive(c, t) ==
  /\ clog' = [clog EXCEPT ![c] = "none"]
  /\ cancel_req' = [cancel_req EXCEPT ![t] = TRUE]
  /\ UNCHANGED <<tasks, callbacks>>
  /\ IF TaskDone(t)
       THEN /\ CancelUpdate(c, t)
            /\ UNCHANGED must_cancel
       ELSE /\ must_cancel' = [must_cancel EXCEPT ![t] = TRUE]
            /\ cpc' = [cpc EXCEPT ![c] = "await_task"]
            /\ UNCHANGED <<records, hist>>

\* a call of cancel_task(t), up to its first suspension or its return
cancel_task(c, t) ==
  /\ cpc[c] \in {"idle", "returned", "raised"}
  /\ ctarget' = [ctarget EXCEPT ![c] = t]
  /\ IF t \in tasks THEN CancelActive(c, t) ELSE CancelWarning(c, t)
  /\ UNCHANGED <<procvars, now, reply, cleanup_log, addpc, add_cb, pc, result, work_outcome, cb_log>>

\* `await task` resumes once the task is done; `except CancelledError: pass`;
\* then the "cancelled" update is issued
cancel_task_awaited(c) ==
  /\ cpc[c] = "await_task"
  /\ TaskDone(ctarget[c])
  /\ CancelUpdate(c, ctarget[c])
  /\ UNCHANGED <<procvars, now, reply, cleanup_log, tasks, callbacks, addpc, add_cb, pc, must_cancel, result,
                 ctarget, clog, work_outcome, cancel_req, cb_log>>

\* resumed after the "cancelled" update: `del self.tasks[task_id]` raises
\* KeyError when the handle is gone; otherwise the callback is discarded too
cancel_task_discard(c) ==
  /\ cpc[c] = "update_cancelled"
  /\ IF ctarget[c] \in tasks
       THEN /\ tasks' = tasks \ {ctarget[c]}
            /\ callbacks' = callbacks \ {ctarget[c]}
            /\ cpc' = [cpc EXCEPT ![c] = "returned"]
            /\ clog' = [clog EXCEPT ![c] = "cancelled"]
       ELSE /\ cpc' = [cpc EXCEPT ![c] = "raised"]
            /\ clog' = [clog EXCEPT ![c] = "KeyError"]
            /\ UNCHANGED <<tasks, callbacks>>
  /\ UNCHANGED <<procvars, now, reply, cleanup_log, records, addpc, add_cb, pc, must_cancel, result, ctarget,
                 hist, work_outcome, cancel_req, cb_log>>

\* --------------------------------------------------------- get_task_status
\* find_one that ignores the query and answers with the first record held
FindFirstRecord(recs, t) ==
  IF DOMAIN recs = {} THEN {} ELSE {recs[CHOOSE x \in DOMAIN recs : TRUE]}

\* find_one({"task_id": t}): the record found, if any (None: none)
find_one(recs, t) == IF t \in DOMAIN recs THEN {recs[t]} ELSE {}

\* get_task_status: ValueError when find_one finds nothing, else the record
get_task_status(t) ==
  /\ reply' = [task_id |-> t,
               raised |-> IF find_one(records, t) = {} THEN "ValueError"
                          ELSE "none",
               task |-> find_one(records, t)]
  /\ UNCHANGED <<procvars, now, cleanup_log, records, tasks, callbacks, addpc, add_cb,
                 pc, must_cancel, result, cpc, ctarget, clog, hist,
                 work_outcome, cancel_req, cb_log>>

\* ------------------------------------------------------- cleanup_old_tasks
\* Python values as the collection compares them with != : a str, a
\* datetime, and the dict of a query operator are never equal to each other
PyStr(s) == [type |-> "str", str |-> s]
PyDatetime(d) == [type |-> "datetime", days |-> d]
PyDict(op, arg) == [type |-> "dict", op |-> op, arg |-> arg]

\* the fields of a stored record that a query of cleanup_old_tasks names
DocFields(doc) ==
  [status |-> PyStr(doc.status), updated_at |-> PyDatetime(doc.updated_at)]

\* the query cleanup_old_tasks passes to delete_many
CleanupQuery(cutoff) ==
  [status |-> PyDict("$in", TerminalStatuses),
   updated_at |-> PyDict("$lt", cutoff)]

\* delete_many: a document matches when every key of the query is a key of
\* the document and the document's value equals the query's value
Matches(doc, query) ==
  \A key \in DOMAIN query :
    key \in DOMAIN DocFields(doc) /\ DocFields(doc)[key] = query[key]

delete_many(recs, query) ==
  [x \in {y \in DOMAIN recs : ~Matches(recs[y], query)} |-> recs[x]]

cleanup_old_tasks(days) ==
  /\ records' = delete_many(records, CleanupQuery(now - days))
  /\ cleanup_log' =
       [cutoff |-> now - days,
        deleted_count |-> Cardinality(DOMAIN records) - Cardinality(DOMAIN records')]
  /\ UNCHANGED <<procvars, now, reply, tasks, callbacks, addpc, add_cb, pc, must_cancel,
                 result, cpc, ctarget, clog, hist, work_outcome, cancel_req,
                 cb_log>>

\* ------------------------------------------------------------------- clock
Tick ==
  /\ now < MaxNow
  /\ now' = now + 1
  /\ UNCHANGED <<procvars, records, tasks, callbacks, addpc, add_cb, pc, must_cancel,
                 result, cpc, ctarget, clog, reply, cleanup_log, hist,
                 work_outcome, cancel_req, cb_log>>

\* ----------------------------------------- DocumentProcessor.create_chunks
\* a text is a sequence of characters; index i of the Python string is
\* element i + 1 of the sequence
Alphabet == {"x", ".", " ", "\n"}
Whitespace == {" ", "\n"}

Max2(a, b) == IF a >= b THEN a ELSE b
MaxOf(S) == CHOOSE m \in S : \A n \in S : n <= m
MinOf(S) == CHOOSE m \in S : \A n \in S : m <= n

\* how Python reads a slice bound i of a string of length len: a negative
\* bound counts from the end, and the result is clamped to 0..len
SliceIndex(i, len) ==
  IF i < 0 THEN Max2(i + len, 0) ELSE IF i > len THEN len ELSE i

\* text.rfind(ch, lo, hi): the highest index within the slice [lo:hi] that
\* holds ch, -1 when there is none
rfind(txt, ch, lo, hi) ==
  LET hits == {i \in SliceIndex(lo, Len(txt))..(SliceIndex(hi, Len(txt)) - 1) :
                 txt[i + 1] = ch}
  IN  IF hits = {} THEN -1 ELSE MaxOf(hits)

\* text[lo:hi]
Slice(txt, lo, hi) ==
  SubSeq(txt, SliceIndex(lo, Len(txt)) + 1, SliceIndex(hi, Len(txt)))

\* str.strip(): leading and trailing whitespace removed
strip(txt) ==
  LET keep == {i \in 1..Len(txt) : txt[i] \notin Whitespace}
  IN  IF keep = {} THEN << >> ELSE SubSeq(txt, MinOf(keep), MaxOf(keep))

\* variant: the window is never cut back to a sentence or line end
ChunkEndAtWindow(txt, st, size) == st + size

\* `end` of one loop iteration: start + MAX_CHUNK_SIZE, cut back to just
\* after the last '.' or newline of the window when the window ends before
\* the text does and that break point lies after start
ChunkEnd(txt, st, size) ==
  LET end == st + size
      last_period == rfind(txt, ".", st, end)
      last_newline == rfind(txt, "\n", st, end)
      break_point == Max2(last_period, last_newline)
  IN  IF end < Len(txt) /\ break_point > st THEN break_point + 1 ELSE end

\* one iteration of `while start < len(text)`; the list of chunks is capped
\* at MaxChunks elements
create_chunks_iterate ==
  /\ cc_pc = "loop"
  /\ start < Len(text)
  /\ Len(chunks) < MaxChunks
  /\ LET end == ChunkEnd(text, start, settings.MAX_CHUNK_SIZE)
         chunk_text == strip(Slice(text, start, end))
     IN  /\ chunks' = IF chunk_text # << >>
                        THEN Append(chunks, [text |-> chunk_text,
                                             start_char |-> start,
                                             end_char |-> end,
                                             chunk_size |-> Len(chunk_text)])
                        ELSE chunks
         /\ start' = IF end < Len(text) THEN end - settings.OVERLAP_SIZE
                     ELSE Len(text)
  /\ UNCHANGED <<queuevars, apivars, market_data_cache, query_log,
                 settings, text, cc_pc, knowledge_graph,
                 embeddings_store, document_store, analysis, search_log>>

\* the loop condition fails: `return chunks`
create_chunks_return ==
  /\ cc_pc = "loop"
  /\ start >= Len(text)
  /\ cc_pc' = "returned"
  /\ UNCHANGED <<queuevars, apivars, market_data_cache, query_log,
                 settings, text, start, chunks, knowledge_graph,
                 embeddings_store, document_store, analysis, search_log>>

\* --------------------------------------- DocumentProcessor.knowledge_graph
\* Strings are sequences of characters.  str.lower() maps 'A' to 'a' and
\* leaves the other characters of the texts tried as they are.
LowerChar(c) == IF c = "A" THEN "a" ELSE c
lower(s) == [i \in 1..Len(s) |-> LowerChar(s[i])]

\* Python's `sub in s` for strings
Contains(s, sub) ==
  \E i \in 0..(Len(s) - Len(sub)) : SubSeq(s, i + 1, i + Len(sub)) = sub

\* node ids: f"entity_{key}_{hash(str(value))}" and f"{timestamp}_{i}"
EntityId(key, value) ==
  [kind |-> "entity", key |-> key, value |-> value, timestamp |-> 0, i |-> 0]
ChunkId(timestamp, i) ==
  [kind |-> "chunk", key |-> "", value |-> << >>, timestamp |-> timestamp,
   i |-> i]

\* the node dicts of _update_knowledge_graph, with their key in `id`
EntityNode(key, value) ==
  [id |-> EntityId(key, value), type |-> "entity", key |-> key,
   value |-> value, text |-> << >>, relationships |-> << >>]
ChunkNode(timestamp, i, txt) ==
  [id |-> ChunkId(timestamp, i), type |-> "chunk", key |-> "",
   value |-> << >>, text |-> txt, relationships |-> << >>]

\* d[id] = item on a dict kept in insertion order: an existing key keeps
\* its place and gets the new value, a new key goes to the end
DictSet(d, item) ==
  IF \E p \in 1..Len(d) : d[p].id = item.id
  THEN [p \in 1..Len(d) |-> IF d[p].id = item.id THEN item ELSE d[p]]
  ELSE Append(d, item)

RECURSIVE DictSetAll(_, _)
DictSetAll(d, items) ==
  IF items = << >> THEN d
  ELSE DictSetAll(DictSet(d, Head(items)), Tail(items))

\* the embedding collaborator, as a function of the text: how many letters
\* a/A and how many letters b the text holds
CountOf(s, cs) == Cardinality({i \in 1..Len(s) : s[i] \in cs})
create_embeddings(txt) == <<CountOf(txt, {"a", "A"}), CountOf(txt, {"b"})>>

Dot(u, v) == u[1] * v[1] + u[2] * v[2]

\* _calculate_text_similarity(text1, text2) > 0.5, on the exact values:
\* dot / (norm * norm) > 1/2.  With a zero norm the quotient is nan and
\* the comparison is False.
SimilarTexts(text1, text2) ==
  LET e1 == create_embeddings(text1)
      e2 == create_embeddings(text2)
  IN  /\ Dot(e1, e2) > 0
      /\ 4 * Dot(e1, e2) * Dot(e1, e2) > Dot(e1, e1) * Dot(e2, e2)

_are_nodes_related(node1, node2) ==
  IF node1.type = "entity" /\ node2.type = "chunk"
  THEN Contains(node2.text, node1.value)
  ELSE IF node1.type = "chunk" /\ node2.type = "chunk"
  THEN SimilarTexts(node1.text, node2.text)
  ELSE FALSE

_determine_relationship(node1, node2) ==
  IF node1.type = "entity" /\ node2.type = "chunk" THEN "mentioned_in"
  ELSE IF node1.type = "chunk" /\ node2.type = "chunk" THEN "related_to"
  ELSE "associated_with"

\* the entries _create_relationships appends to the list of the node at
\* place p for its partners at places q, q + 1, ...: the pair is examined
\* with the node of the lower place as node1
RECURSIVE AppendedEdges(_, _, _)
AppendedEdges(g, p, q) ==
  IF q > Len(g) THEN << >>
  ELSE LET node1 == IF p < q THEN g[p] ELSE g[q]
           node2 == IF p < q THEN g[q] ELSE g[p]
       IN  (IF q # p /\ _are_nodes_related(node1, node2)
            THEN <<[target |-> g[q].id,
                    type |-> _determine_relationship(node1, node2)]>>
            ELSE << >>) \o AppendedEdges(g, p, q + 1)

\* _create_relationships: every pair of nodes, in dict order; the entries
\* are appended to the lists the nodes already hold
_create_relationships(g) ==
  [p \in 1..Len(g) |->
     [g[p] EXCEPT !.relationships = @ \o AppendedEdges(g, p, 1)]]

\* _update_knowledge_graph(chunks, extracted_data): entity nodes, then
\* chunk nodes, then _create_relationships
_update_knowledge_graph(g, doc_chunks, extracted_data) ==
  _create_relationships(
    DictSetAll(
      DictSetAll(g, [j \in 1..Len(extracted_data) |->
                      EntityNode(extracted_data[j].key, extracted_data[j].value)]),
      doc_chunks))

\* ---------------------------------------- DocumentProcessor.analyze_document
\* f"{context.get('property_type')}_{context.get('location')}"
MarketKey(context) == context.property_type \o <<"_">> \o context.location

\* key in self.market_data_cache
InCache(cache, key) == \E p \in 1..Len(cache) : cache[p].key = key

\* _update_market_data: an entry is written only under a key the cache does
\* not hold yet
_update_market_data(cache, context) ==
  IF ~InCache(cache, MarketKey(context))
  THEN Append(cache, [key |-> MarketKey(context), timestamp |-> now,
                      data |-> context])
  ELSE cache

\* analyze_document up to the call of create_chunks: the text extracted
\* from the PDF, whether a specialized extractor takes the document, the
\* fields it returned (none without an extractor) and the market_context
\* argument (NoContext for None); with an extractor and a market_context
\* the cache is updated first
analyze_document(raw_text, extractor, extracted_data, market_context) ==
  /\ cc_pc = "idle"
  /\ analysis.count < MaxIngestions
  /\ ~extractor => extracted_data = << >>
  /\ market_data_cache' =
       IF extractor /\ market_context # NoContext
       THEN _update_market_data(market_data_cache, market_context)
       ELSE market_data_cache
  /\ text' = raw_text
  /\ start' = 0
  /\ chunks' = << >>
  /\ cc_pc' = "loop"
  /\ analysis' = [pc |-> "create_chunks", extracted_data |-> extracted_data,
                  extractor |-> extractor, market_context |-> market_context,
                  status |-> "none", chunks |-> 0,
                  count |-> analysis.count + 1]
  /\ UNCHANGED <<queuevars, apivars, query_log, settings, knowledge_graph,
                 embeddings_store, document_store, search_log>>

\* create_embeddings raises: the except clause returns status "error"
analyze_document_embeddings_failed ==
  /\ cc_pc = "returned"
  /\ analysis.pc = "create_chunks"
  /\ cc_pc' = "idle"
  /\ analysis' = [analysis EXCEPT !.pc = "done", !.status = "error"]
  /\ UNCHANGED <<queuevars, apivars, market_data_cache, query_log,
                 settings, text, start, chunks, knowledge_graph,
                 embeddings_store, document_store, search_log>>

\* the chunks of this call under their ids f"{timestamp}_{i}"
DocChunks == [j \in 1..Len(chunks) |-> ChunkNode(now, j - 1, chunks[j].text)]

\* create_chunks returned and the embeddings were created: doc_chunks is
\* built and handed to _update_knowledge_graph; nothing is put into
\* embeddings_store or document_store.  What follows (AI analysis,
\* structure, metadata) ends in status "success", or raises and ends in
\* status "error".
analyze_document_update(ok) ==
  /\ cc_pc = "returned"
  /\ analysis.pc = "create_chunks"
  /\ knowledge_graph' =
       _update_knowledge_graph(knowledge_graph, DocChunks,
                               analysis.extracted_data)
  /\ cc_pc' = "idle"
  /\ analysis' = [analysis EXCEPT !.pc = "done",
                                  !.status = IF ok THEN "success" ELSE "error",
                                  !.chunks = Len(chunks)]
  /\ UNCHANGED <<queuevars, apivars, market_data_cache, query_log,
                 settings, text, start, chunks, embeddings_store,
                 document_store, search_log>>

\* ------------------------------------------------------------------ search
RECURSIVE Flatten(_)
Flatten(ss) == IF ss = << >> THEN << >> ELSE Head(ss) \o Flatten(Tail(ss))

\* s[:k] for k >= 0
Take(s, k) == SubSeq(s, 1, IF k < Len(s) THEN k ELSE Len(s))

\* self.knowledge_graph[node_id]
NodeAt(g, id) == g[CHOOSE p \in 1..Len(g) : g[p].id = id]

\* what one node adds to relevant_nodes for one entity string: its id and
\* the targets of its relationships, when it is an entity node whose value
\* holds the string, case ignored
RelevantOfNode(node, entity) ==
  IF node.type = "entity" /\ Contains(lower(node.value), lower(entity))
  THEN <<node.id>> \o
       [r \in 1..Len(node.relationships) |-> node.relationships[r].target]
  ELSE << >>

RelevantNodes(g, entities) ==
  Flatten([e \in 1..Len(entities) |->
             Flatten([p \in 1..Len(g) |-> RelevantOfNode(g[p], entities[e])])])

\* list(dict.fromkeys(s)): first occurrences, in order
RECURSIVE Deduplicate(_)
Deduplicate(s) ==
  IF s = << >> THEN << >>
  ELSE LET init == Deduplicate(SubSeq(s, 1, Len(s) - 1))
       IN  IF \E j \in 1..(Len(s) - 1) : s[j] = s[Len(s)] THEN init
           ELSE Append(init, s[Len(s)])

\* the texts of the chunk nodes among ids, one per occurrence
ChunkTexts(g, ids) ==
  Flatten([j \in 1..Len(ids) |->
             IF NodeAt(g, ids[j]).type = "chunk"
             THEN <<NodeAt(g, ids[j]).text>> ELSE << >>])

\* _knowledge_graph_search, from the entities _extract_entities returned
KnowledgeGraphSearch(g, entities, k) ==
  Take(ChunkTexts(g, RelevantNodes(g, entities)), k)

\* x * |x|: ordered as x is
SignedSquare(x) == IF x < 0 THEN 0 - x * x ELSE x * x

\* the cosine similarity of the query q to a exceeds / equals the one to b:
\* dot(q, a) / (|q| |a|) against dot(q, b) / (|q| |b|), compared exactly
\* (all three vectors have a norm above 0; with a query of norm 0 every
\* similarity is nan, every comparison of two of them is False, and
\* CosineGreater is FALSE as well)
CosineGreater(q, a, b) ==
  SignedSquare(Dot(q, a)) * Dot(b, b) > SignedSquare(Dot(q, b)) * Dot(a, a)
CosineEqual(q, a, b) ==
  SignedSquare(Dot(q, a)) * Dot(b, b) = SignedSquare(Dot(q, b)) * Dot(a, a)

\* variant: entries of equal similarity come out in reverse insertion order
RECURSIVE SortedTiesReversed(_, _)
SortedTiesReversed(store, q) ==
  IF store = << >> THEN << >>
  ELSE LET x == store[Len(store)]
           rest == SortedTiesReversed(SubSeq(store, 1, Len(store) - 1), q)
           before == {p \in 1..Len(rest) :
                        CosineGreater(q, rest[p].embedding, x.embedding)}
       IN  SubSeq(rest, 1, Cardinality(before)) \o <<x>> \o
           SubSeq(rest, Cardinality(before) + 1, Len(rest))

\* sorted(similarities.items(), key=lambda x: x[1], reverse=True): a stable
\* sort, built by inserting each entry, in insertion order, behind the
\* entries whose similarity is not below its own
RECURSIVE SortedBySimilarity(_, _)
SortedBySimilarity(store, q) ==
  IF store = << >> THEN << >>
  ELSE LET x == store[Len(store)]
           rest == SortedBySimilarity(SubSeq(store, 1, Len(store) - 1), q)
           before == {p \in 1..Len(rest) :
                        ~CosineGreater(q, x.embedding, rest[p].embedding)}
       IN  SubSeq(rest, 1, Cardinality(before)) \o <<x>> \o
           SubSeq(rest, Cardinality(before) + 1, Len(rest))

\* self.document_store[doc_id]["text"]
DocumentText(docs, id) == docs[CHOOSE p \in 1..Len(docs) : docs[p].id = id].text

\* top_k of _vector_search: the ids
TopK(store, q, k) ==
  LET top == Take(SortedBySimilarity(store, q), k)
  IN  [p \in 1..Len(top) |-> top[p].id]

VectorSearch(store, docs, q, k) ==
  LET top_k == TopK(store, q, k)
  IN  [p \in 1..Len(top_k) |-> DocumentText(docs, top_k[p])]

\* variant: the graph results are put in front of the vector results
HybridGraphFirst(store, docs, g, entities, q, k) ==
  Take(Deduplicate(KnowledgeGraphSearch(g, entities, k) \o
                   VectorSearch(store, docs, q, k)), k)

HybridSearch(store, docs, g, entities, q, k) ==
  Take(Deduplicate(VectorSearch(store, docs, q, k) \o
                   KnowledgeGraphSearch(g, entities, k)), k)

\* the three searches, as query_document runs them between two ingestions;
\* search_log keeps the local variables top_k (ids), vector_results and
\* graph_results next to what is returned
_knowledge_graph_search(entities, k) ==
  /\ cc_pc = "idle"
  /\ search_log' = [op |-> "knowledge_graph", entities |-> entities,
                    embedding |-> <<0, 0>>, k |-> k, ids |-> << >>,
                    vector_results |-> << >>, graph_results |-> << >>,
                    result |-> KnowledgeGraphSearch(knowledge_graph, entities, k)]
  /\ UNCHANGED <<queuevars, apivars, market_data_cache, query_log,
                 settings, text, start, chunks, cc_pc, analysis,
                 knowledge_graph, embeddings_store, document_store>>

_vector_search(embedding, k) ==
  /\ cc_pc = "idle"
  /\ search_log' = [op |-> "vector", entities |-> << >>,
                    embedding |-> embedding, k |-> k,
                    ids |-> TopK(embeddings_store, embedding, k),
                    vector_results |-> << >>, graph_results |-> << >>,
                    result |-> VectorSearch(embeddings_store, document_store,
                                            embedding, k)]
  /\ UNCHANGED <<queuevars, apivars, market_data_cache, query_log,
                 settings, text, start, chunks, cc_pc, analysis,
                 knowledge_graph, embeddings_store, document_store>>

_hybrid_search(entities, embedding, k) ==
  /\ cc_pc = "idle"
  /\ search_log' = [op |-> "hybrid", entities |-> entities,
                    embedding |-> embedding, k |-> k, ids |-> << >>,
                    vector_results |->
                      VectorSearch(embeddings_store, document_store,
                                   embedding, k),
                    graph_results |->
                      KnowledgeGraphSearch(knowledge_graph, entities, k),
                    result |-> HybridSearch(embeddings_store, document_store,
                                            knowledge_graph, entities,
                                            embedding, k)]
  /\ UNCHANGED <<queuevars, apivars, market_data_cache, query_log,
                 settings, text, start, chunks, cc_pc, analysis,
                 knowledge_graph, embeddings_store, document_store>>

\* ------------------------------------------------------- query_document
\* np.dot(u, v) / (np.linalg.norm(u) * np.linalg.norm(v)): the quotient is
\* kept as the dot product and the product of the squared norms.  With a
\* zero norm numpy divides 0.0 by 0.0, which gives nan and a warning, no
\* exception.
Cosine(u, v) ==
  [nan |-> Dot(u, u) * Dot(v, v) = 0, dot |-> Dot(u, v),
   norms |-> Dot(u, u) * Dot(v, v)]

\* the dict `similarities` of _vector_search, in insertion order
Similarities(store, q) ==
  [p \in 1..Len(store) |-> Cosine(q, store[p].embedding)]

\* doc_scores of _prepare_context: each document with its embedding and its
\* similarity to the question
DocScores(relevant_docs, q) ==
  [p \in 1..Len(relevant_docs) |->
     [id |-> p, text |-> relevant_docs[p],
      embedding |-> create_embeddings(relevant_docs[p]),
      similarity |-> Cosine(q, create_embeddings(relevant_docs[p]))]]

\* _prepare_context: the documents sorted by similarity, highest first; the
\* context string holds them in that order
_prepare_context(relevant_docs, q) ==
  LET sorted_docs == SortedBySimilarity(DocScores(relevant_docs, q), q)
  IN  [p \in 1..Len(sorted_docs) |-> sorted_docs[p].text]

\* variant: every context_type other than "hybrid" runs the vector search
RelevantDocsVectorElse(context_type, store, docs, g, entities, q, k) ==
  IF context_type = "hybrid"
  THEN HybridSearch(store, docs, g, entities, q, k)
  ELSE VectorSearch(store, docs, q, k)

\* relevant_docs of query_document: the branch on context_type
RelevantDocs(context_type, store, docs, g, entities, q, k) ==
  IF context_type = "hybrid"
  THEN HybridSearch(store, docs, g, entities, q, k)
  ELSE IF context_type = "knowledge_graph"
       THEN KnowledgeGraphSearch(g, entities, k)
       ELSE VectorSearch(store, docs, q, k)

\* the collaborator call that raises, if one does: a call query_document
\* does not reach on its path raises nothing.  _extract_entities is called
\* by the graph search only, the enhancement only with a non-empty cache.
Raises(failure, context_type, cache) ==
  \/ failure \in {"create_embeddings", "completion", "confidence"}
  \/ failure = "_extract_entities"
       /\ context_type \in {"hybrid", "knowledge_graph"}
  \/ failure = "enhancement" /\ cache # << >>

\* _calculate_answer_confidence: the similarity of the answer to the
\* context enters the sum with weight 0.6; a nan stays a nan through the
\* sum, min and round
_calculate_answer_confidence(answer, context) ==
  Cosine(create_embeddings(answer), create_embeddings(Flatten(context)))

\* query_document(question, k, context_type), with what the collaborators
\* answer: the entities _extract_entities returns, the completion's answer,
\* the enhancement's answer, and the call that raises.  The function is
\* synchronous and writes nothing of the processor; every exception is
\* logged and raised again.  query_log keeps, next to what the call
\* returned, what the vector search and the graph search give for the
\* question on the stores and the graph of the call.
query_document(question, k, context_type, entities, failure, answer, enhanced) ==
  /\ cc_pc = "idle"
  /\ LET question_embedding == create_embeddings(question)
         asked == [NoQuery EXCEPT !.context_type = context_type, !.k = k,
                                  !.failure = failure,
                                  !.cache_entries = Len(market_data_cache)]
         relevant_docs ==
           RelevantDocs(context_type, embeddings_store, document_store,
                        knowledge_graph, entities, question_embedding, k)
         context == _prepare_context(relevant_docs, question_embedding)
         final == IF market_data_cache # << >> THEN enhanced ELSE answer
     IN  query_log' =
           IF Raises(failure, context_type, market_data_cache)
           THEN [asked EXCEPT !.outcome = "raised"]
           ELSE [asked EXCEPT
                   !.outcome = "returned",
                   !.vector_results =
                     VectorSearch(embeddings_store, document_store,
                                  question_embedding, k),
                   !.graph_results =
                     KnowledgeGraphSearch(knowledge_graph, entities, k),
                   !.similarities =
                     IF context_type = "knowledge_graph" THEN << >>
                     ELSE Similarities(embeddings_store, question_embedding),
                   !.source_documents = relevant_docs,
                   !.doc_scores =
                     [p \in 1..Len(relevant_docs) |->
                        DocScores(relevant_docs, question_embedding)[p]
                          .similarity],
                   !.context = context,
                   !.answer = final,
                   !.confidence =
                     _calculate_answer_confidence(final, context),
                   !.market_data_used = market_data_cache # << >>]
  /\ UNCHANGED <<queuevars, apivars, market_data_cache, settings, text, start, chunks,
                 cc_pc, analysis, knowledge_graph, embeddings_store,
                 document_store, search_log>>

\* --------------------------------------------------------- specifications
TaskStep(t) ==
  \/ \E cb \in BOOLEAN : add_task(t, cb)
  \/ add_task_created(t)
  \/ run_task_start(t)
  \/ run_task_await_coroutine(t)
  \/ \E r \in Results : run_task_completed(t, r)
  \/ run_task_raised(t)
  \/ run_task_work_cancelled(t)
  \/ run_task_callback(t)
  \/ run_task_callback_returned(t)
  \/ run_task_callback_raised(t)
  \/ run_task_error_done(t)

CallerStep(c) ==
  \/ \E t \in TaskIds : cancel_task(c, t)
  \/ cancel_task_awaited(c)
  \/ cancel_task_discard(c)

\* the steps that change the queue
QueueNext ==
  \/ \E t \in TaskIds : TaskStep(t)
  \/ \E c \in Callers : CallerStep(c)

Next ==
  \/ QueueNext
  \/ \E t \in TaskIds : get_task_status(t)

\* the task queue within one clock day
Spec == Init /\ [][Next]_vars

\* the event loop runs every coroutine that is ready; the unit of work and
\* the callback end (return, raise, or are cancelled); collection calls
\* return
Fairness ==
  /\ \A t \in TaskIds :
       /\ WF_vars(add_task_created(t))
       /\ WF_vars(run_task_start(t))
       /\ WF_vars(run_task_await_coroutine(t))
       /\ WF_vars(\E r \in Results : run_task_completed(t, r))
       /\ WF_vars(run_task_work_cancelled(t))
       /\ WF_vars(run_task_callback(t))
       /\ WF_vars(run_task_callback_returned(t))
       /\ WF_vars(run_task_error_done(t))
  /\ \A c \in Callers :
       /\ WF_vars(cancel_task_awaited(c))
       /\ WF_vars(cancel_task_discard(c))

\* progress of the queue; get_task_status only reads and is left out
FairSpec == Init /\ [][QueueNext]_vars /\ Fairness

\* a freshly started TaskQueue over a collection that holds the records of
\* earlier runs
InitCleanup ==
  /\ now = 10
  /\ \E ids \in SUBSET RecordIds :
       \E st \in [ids -> Statuses], ua \in [ids -> UpdatedAts] :
         records = [t \in ids |->
                      [task_id |-> t, status |-> st[t], created_at |-> 0,
                       updated_at |-> ua[t], result |-> Absent,
                       error |-> Absent]]
  /\ tasks = {}
  /\ callbacks = {}
  /\ addpc = [t \in TaskIds |-> "idle"]
  /\ add_cb = [t \in TaskIds |-> FALSE]
  /\ pc = [t \in TaskIds |-> "none"]
  /\ must_cancel = [t \in TaskIds |-> FALSE]
  /\ result = [t \in TaskIds |-> None]
  /\ cpc = [c \in Callers |-> "idle"]
  /\ ctarget = [c \in Callers |-> "a"]
  /\ clog = [c \in Callers |-> "none"]
  /\ reply = NoReply
  /\ cleanup_log = NoCleanup
  /\ hist = [t \in TaskIds |-> << >>]
  /\ work_outcome = [t \in TaskIds |-> "none"]
  /\ cancel_req = [t \in TaskIds |-> FALSE]
  /\ cb_log = [t \in TaskIds |-> << >>]
  /\ settings = Configured
  /\ InitProcessor

NextCleanup ==
  \/ \E days \in Days : cleanup_old_tasks(days)
  \/ Tick

SpecCleanup == InitCleanup /\ [][NextCleanup]_vars

\* create_chunks on its own.  The texts tried: every text over Alphabet of
\* at most MaxTextLen characters under every configuration with
\* OVERLAP_SIZE < MAX_CHUNK_SIZE <= MaxWindow; the example text under
\* window 40 and overlap 5; texts longer than the window under the
\* configuration as shipped, with one '.' at index p
ExampleText ==
  <<"R", "e", "v", "e", "n", "u", "e", " ", "w", "a", "s", " ", "s", "t",
    "r", "o", "n", "g", ".", " ", "O", "c", "c", "u", "p", "a", "n", "c",
    "y", " ", "h", "e", "l", "d", " ", "a", "t", " ", "9", "5", "%", ".",
    " ", "N", "O", "I", " ", "g", "r", "e", "w", " ", "y", "e", "a", "r",
    " ", "o", "v", "e", "r", " ", "y", "e", "a", "r", ".">>
ExampleSettings == [MAX_CHUNK_SIZE |-> 40, OVERLAP_SIZE |-> 5]

SmallTexts == UNION {[1..n -> Alphabet] : n \in 0..MaxTextLen}
SmallSettings ==
  {cfg \in [MAX_CHUNK_SIZE : 1..MaxWindow, OVERLAP_SIZE : 0..MaxWindow] :
     cfg.OVERLAP_SIZE < cfg.MAX_CHUNK_SIZE}
LongText(n, p) == [i \in 1..n |-> IF i = p + 1 THEN "." ELSE "x"]
LongTexts ==
  {LongText(n, p) : n \in {10, 1000, 1001, 1500, 2000}, p \in {0, 2, 99, 100, 500, 999}}

InitChunks ==
  /\ now = 0
  /\ InitQueue
  /\ knowledge_graph = << >>
  /\ embeddings_store = << >>
  /\ document_store = << >>
  /\ analysis = NoAnalysis
  /\ search_log = NoSearch
  /\ market_data_cache = << >>
  /\ query_log = NoQuery
  /\ InitApi
  /\ start = 0
  /\ chunks = << >>
  /\ cc_pc = "loop"
  /\ \/ text \in SmallTexts /\ settings \in SmallSettings
     \/ text = ExampleText /\ settings = ExampleSettings
     \/ text \in LongTexts /\ settings = Configured

NextChunks == create_chunks_iterate \/ create_chunks_return

SpecChunks == InitChunks /\ [][NextChunks]_vars

\* ingestions into one knowledge graph, and searches of it.  Documents of
\* two or four letters are cut into chunks of two characters; the
\* specialized extractor returns no field, one field or two fields; two
\* ingestions fall into the same second or into consecutive seconds.
GraphSettings == [MAX_CHUNK_SIZE |-> 2, OVERLAP_SIZE |-> 0]
DocTexts ==
  {<<"a", "b">>, <<"A", "b">>, <<"b", "b">>, <<"a", "a">>,
   <<"a", "a", "a", "b">>, <<"a", "a", "b", "b">>}
Extractions ==
  {<< >>,
   <<[key |-> "k1", value |-> <<"a">>]>>,
   <<[key |-> "k1", value |-> <<"A">>]>>,
   <<[key |-> "k1", value |-> <<"a">>], [key |-> "k2", value |-> <<"a">>]>>}
EntityLists == {<< >>, << <<"a">> >>, << <<"A">>, <<"b">> >>}

InitGraph ==
  /\ now = MaxNow - 1
  /\ InitQueue
  /\ settings = GraphSettings
  /\ InitProcessor

NextGraph ==
  \/ \E raw_text \in DocTexts, extracted_data \in Extractions :
       analyze_document(raw_text, TRUE, extracted_data, NoContext)
  \/ create_chunks_iterate
  \/ create_chunks_return
  \/ analyze_document_embeddings_failed
  \/ \E ok \in BOOLEAN : analyze_document_update(ok)
  \/ \E entities \in EntityLists, k \in 0..MaxK :
       _knowledge_graph_search(entities, k)
  \/ Tick

SpecGraph == InitGraph /\ [][NextGraph]_vars

\* the searches.  analyze_document fills neither embeddings_store nor
\* document_store, so their contents are drawn: up to MaxStored entries,
\* inserted in the order of their ids, each holding a chunk text and the
\* embedding of that text.  The graph is filled by one ingestion.  Query
\* embeddings and stored embeddings have a norm above 0; the stores are
\* written by no action, so the searches read them as drawn.
StoredTexts == {<<"a", "a">>, <<"a", "b">>, <<"A", "b">>}
QueryEmbeddings == {<<1, 0>>, <<0, 1>>}
SearchDocTexts == {<<"a", "b">>, <<"a", "a", "a", "b">>}
SearchExtractions ==
  {<<[key |-> "k1", value |-> <<"a">>]>>,
   <<[key |-> "k1", value |-> <<"a">>], [key |-> "k2", value |-> <<"a">>]>>}

InitSearch ==
  /\ now = MaxNow
  /\ InitQueue
  /\ settings = GraphSettings
  /\ text = << >>
  /\ start = 0
  /\ chunks = << >>
  /\ cc_pc = "idle"
  /\ knowledge_graph = << >>
  /\ analysis = [NoAnalysis EXCEPT !.count = MaxIngestions - 1]
  /\ search_log = NoSearch
  /\ market_data_cache = << >>
  /\ query_log = NoQuery
  /\ InitApi
  /\ \E n \in 0..MaxStored :
       \E stored \in [1..n -> StoredTexts] :
         /\ embeddings_store =
              [p \in 1..n |-> [id |-> ChunkId(0, p - 1),
                               embedding |-> create_embeddings(stored[p])]]
         /\ document_store =
              [p \in 1..n |-> [id |-> ChunkId(0, p - 1), text |-> stored[p]]]

NextSearch ==
  \/ \E raw_text \in SearchDocTexts, extracted_data \in SearchExtractions :
       analyze_document(raw_text, TRUE, extracted_data, NoContext)
  \/ create_chunks_iterate
  \/ create_chunks_return
  \/ analyze_document_embeddings_failed
  \/ \E ok \in BOOLEAN : analyze_document_update(ok)
  \/ \E entities \in EntityLists, k \in 1..MaxK :
       _knowledge_graph_search(entities, k)
  \/ \E embedding \in QueryEmbeddings, k \in 1..MaxK :
       _vector_search(embedding, k)
  \/ \E entities \in EntityLists, embedding \in QueryEmbeddings, k \in 1..MaxK :
       _hybrid_search(entities, embedding, k)

SpecSearch == InitSearch /\ [][NextSearch]_vars

\* the market data cache: ingestions that are handed a market_context
MarketContexts ==
  {[property_type |-> <<"o">>, location |-> <<"n">>, data |-> 1],
   [property_type |-> <<"o">>, location |-> <<"n">>, data |-> 2],
   [property_type |-> <<"r">>, location |-> <<"n">>, data |-> 1]}
MarketTexts == {<<"a", "b">>, <<"a", "b", "x">>}

InitMarket ==
  /\ now = MaxNow
  /\ InitQueue
  /\ settings = GraphSettings
  /\ InitProcessor

NextMarket ==
  \/ \E raw_text \in MarketTexts, extractor \in BOOLEAN,
        market_context \in MarketContexts \cup {NoContext} :
       analyze_document(raw_text, extractor,
                        IF extractor THEN <<[key |-> "k1", value |-> <<"a">>]>>
                        ELSE << >>,
                        market_context)
  \/ create_chunks_iterate
  \/ create_chunks_return
  \/ analyze_document_embeddings_failed
  \/ \E ok \in BOOLEAN : analyze_document_update(ok)

SpecMarket == InitMarket /\ [][NextMarket]_vars

\* query_document.  The stores are drawn as for the searches; the graph and
\* the cache are filled by one ingestion, with or without a market_context.
\* A question without the letters a and b has an embedding of norm 0; the
\* stored texts and the chunk texts have embeddings of a norm above 0.
Questions == {<<"a">>, <<"x">>}
ContextTypes == {"hybrid", "knowledge_graph", "vector", "graph"}
Failures ==
  {"none", "create_embeddings", "_extract_entities", "completion",
   "enhancement", "confidence"}
QueryStoredTexts == {<<"a", "a">>, <<"A", "b">>}
Answers == {<<"a">>}
QueryEntityLists == {<< >>, << <<"a">> >>}
QueryContexts ==
  {NoContext, [property_type |-> <<"o">>, location |-> <<"n">>, data |-> 1]}
EnhancedAnswers == {<<"a", "b">>}

InitQuery ==
  /\ now = MaxNow
  /\ InitQueue
  /\ settings = GraphSettings
  /\ text = << >>
  /\ start = 0
  /\ chunks = << >>
  /\ cc_pc = "idle"
  /\ knowledge_graph = << >>
  /\ analysis = [NoAnalysis EXCEPT !.count = MaxIngestions - 1]
  /\ search_log = NoSearch
  /\ market_data_cache = << >>
  /\ query_log = NoQuery
  /\ InitApi
  /\ \E n \in 0..MaxStored :
       \E stored \in [1..n -> QueryStoredTexts] :
         /\ embeddings_store =
              [p \in 1..n |-> [id |-> ChunkId(0, p - 1),
                               embedding |-> create_embeddings(stored[p])]]
         /\ document_store =
              [p \in 1..n |-> [id |-> ChunkId(0, p - 1), text |-> stored[p]]]

NextQuery ==
  \/ \E extractor \in BOOLEAN,
        market_context \in QueryContexts :
       analyze_document(<<"a", "b">>, extractor,
                        IF extractor THEN <<[key |-> "k1", value |-> <<"a">>]>>
                        ELSE << >>,
                        market_context)
  \/ create_chunks_iterate
  \/ create_chunks_return
  \/ analyze_document_embeddings_failed
  \/ \E ok \in BOOLEAN : analyze_document_update(ok)
  \/ \E question \in Questions, k \in {MaxK}, context_type \in ContextTypes,
        entities \in QueryEntityLists, failure \in Failures,
        answer \in Answers,
        enhanced \in EnhancedAnswers :
       query_document(question, k, context_type, entities, failure, answer,
                      enhanced)

SpecQuery == InitQuery /\ [][NextQuery]_vars

\* ------------------------------------------------ api: reprocess_document
\* task_id = str(uuid.uuid4()): each request makes an id of its own
TaskOf(r) == IF r = 1 THEN "a" ELSE "b"

\* variant: the unit of work can be suspended at each of its positions
SuspendsAnywhere(position) == FALSE

\* the positions of the unit of work reprocess() at which it cannot be
\* suspended: from its start through the call of the synchronous
\* analyze_document (nodes inserted, relationships created) there is no
\* await; the first one is reached after analyze_document has returned
InSync(position) == position \in {"none", "nodes", "relationships"}

\* the tasks whose unit of work holds the event loop's thread
Holder == {t \in TaskIds : pc[t] = "coroutine" /\ InSync(ing_pc[t])}

\* reprocess_document up to the answer of find_one: the document as read
reprocess_document(r) ==
  /\ req_pc[r] = "idle"
  /\ req_pc' = [req_pc EXCEPT ![r] = "found"]
  /\ req_task' = [req_task EXCEPT ![r] = doc_task]
  /\ UNCHANGED <<queuevars, docvars, doc_task, ing_pc, sd_pc, sd_targets>>

\* cancel_task raised something other than ValueError: the outer except
\* clause answers with status 500 and no task is created
reprocess_document_failed(r) ==
  /\ req_pc[r] = "found"
  /\ cpc[r] = "raised"
  /\ req_pc' = [req_pc EXCEPT ![r] = "failed"]
  /\ UNCHANGED <<queuevars, docvars, doc_task, req_task, ing_pc, sd_pc,
                 sd_targets>>

\* the existing task, if the document named one, is dealt with: the
\* request goes on to add_task
CancelReturned(r) == req_task[r] = Absent \/ cpc[r] = "returned"

\* after add_task has returned: the document gets the new task_id
reprocess_document_scheduled(r) ==
  /\ req_pc[r] = "found"
  /\ addpc[TaskOf(r)] = "returned"
  /\ doc_task' = TaskOf(r)
  /\ req_pc' = [req_pc EXCEPT ![r] = "accepted"]
  /\ UNCHANGED <<queuevars, docvars, req_task, ing_pc, sd_pc, sd_targets>>

\* the unit of work inside processor.analyze_document: the nodes are
\* inserted by _update_knowledge_graph
reprocess_nodes(t) ==
  /\ pc[t] = "coroutine"
  /\ ing_pc[t] = "none"
  /\ ing_pc' = [ing_pc EXCEPT ![t] = "nodes"]
  /\ UNCHANGED <<queuevars, docvars, doc_task, req_pc, req_task, sd_pc,
                 sd_targets>>

\* _create_relationships is entered
reprocess_relationships(t) ==
  /\ pc[t] = "coroutine"
  /\ ing_pc[t] = "nodes"
  /\ ing_pc' = [ing_pc EXCEPT ![t] = "relationships"]
  /\ UNCHANGED <<queuevars, docvars, doc_task, req_pc, req_task, sd_pc,
                 sd_targets>>

\* analyze_document has returned its dict; `await` on it raises TypeError,
\* and the except clause of reprocess() awaits update_one
reprocess_returned(t) ==
  /\ pc[t] = "coroutine"
  /\ ing_pc[t] = "relationships"
  /\ ing_pc' = [ing_pc EXCEPT ![t] = "returned"]
  /\ UNCHANGED <<queuevars, docvars, doc_task, req_pc, req_task, sd_pc,
                 sd_targets>>

\* ------------------------------------------------- main: shutdown_services
\* shutdown_services up to its await: the client is closed (a close that
\* leaves the collection answering, as InMemoryMongoClient.close), the keys
\* of task_queue.tasks are listed and one cancel_task per key is gathered
shutdown_services ==
  /\ sd_pc = "running"
  /\ sd_targets' = tasks
  /\ sd_pc' = IF tasks = {} THEN "done" ELSE "gather"
  /\ UNCHANGED <<queuevars, docvars, doc_task, req_pc, req_task, ing_pc>>

\* every gathered cancel_task has returned
shutdown_services_done ==
  /\ sd_pc = "gather"
  /\ \A t \in sd_targets : cpc[t] = "returned"
  /\ sd_pc' = "done"
  /\ UNCHANGED <<queuevars, docvars, doc_task, req_pc, req_task, ing_pc,
                 sd_targets>>

\* a gathered cancel_task has raised: gather raises it in shutdown_services
shutdown_services_raised ==
  /\ sd_pc = "gather"
  /\ \E t \in sd_targets : cpc[t] = "raised"
  /\ sd_pc' = "raised"
  /\ UNCHANGED <<queuevars, docvars, doc_task, req_pc, req_task, ing_pc,
                 sd_targets>>

\* ------------------------------------------------------ api specifications
\* a TaskQueue whose cancel_task callers are named by the set `callers`
InitQueueOf(callers) ==
  /\ records = << >>
  /\ tasks = {}
  /\ callbacks = {}
  /\ addpc = [t \in TaskIds |-> "idle"]
  /\ add_cb = [t \in TaskIds |-> FALSE]
  /\ pc = [t \in TaskIds |-> "none"]
  /\ must_cancel = [t \in TaskIds |-> FALSE]
  /\ result = [t \in TaskIds |-> None]
  /\ cpc = [c \in callers |-> "idle"]
  /\ ctarget = [c \in callers |-> "a"]
  /\ clog = [c \in callers |-> "none"]
  /\ reply = NoReply
  /\ cleanup_log = NoCleanup
  /\ hist = [t \in TaskIds |-> << >>]
  /\ work_outcome = [t \in TaskIds |-> "none"]
  /\ cancel_req = [t \in TaskIds |-> FALSE]
  /\ cb_log = [t \in TaskIds |-> << >>]

\* two reprocess_document requests for one document, each the caller of its
\* own cancel_task; the tasks are the units of work the requests create
InitReprocess ==
  /\ now = 0
  /\ InitQueueOf(Requests)
  /\ settings = Configured
  /\ InitProcessor

\* a step is taken by another coroutine only while no unit of work holds
\* the thread
NextReprocess ==
  \/ \E r \in Requests : Holder = {} /\ reprocess_document(r)
  \/ \E r \in Requests :
       /\ Holder = {}
       /\ req_pc[r] = "found"
       /\ req_task[r] # Absent
       /\ cpc[r] = "idle"
       /\ cancel_task(r, req_task[r])
  \/ \E r \in Requests : Holder = {} /\ cancel_task_awaited(r)
  \/ \E r \in Requests : Holder = {} /\ cancel_task_discard(r)
  \/ \E r \in Requests : Holder = {} /\ reprocess_document_failed(r)
  \/ \E r \in Requests :
       /\ Holder = {}
       /\ req_pc[r] = "found"
       /\ CancelReturned(r)
       /\ add_task(TaskOf(r), FALSE)
  \/ \E t \in TaskIds : Holder = {} /\ add_task_created(t)
  \/ \E r \in Requests : Holder = {} /\ reprocess_document_scheduled(r)
  \/ \E t \in TaskIds : Holder = {} /\ run_task_start(t)
  \/ \E t \in TaskIds : Holder = {} /\ run_task_await_coroutine(t)
  \/ \E t \in TaskIds :
       Holder = {} /\ ing_pc[t] = "returned" /\ run_task_raised(t)
  \/ \E t \in TaskIds :
       Holder = {} /\ ing_pc[t] = "returned" /\ run_task_work_cancelled(t)
  \/ \E t \in TaskIds : Holder = {} /\ run_task_error_done(t)
  \/ \E t \in TaskIds : Holder \subseteq {t} /\ reprocess_nodes(t)
  \/ \E t \in TaskIds : Holder \subseteq {t} /\ reprocess_relationships(t)
  \/ \E t \in TaskIds : Holder \subseteq {t} /\ reprocess_returned(t)

SpecReprocess == InitReprocess /\ [][NextReprocess]_vars

\* the application with its tasks, shut down at any moment; each gathered
\* cancel_task is a caller named by its task
InitShutdown ==
  /\ now = 0
  /\ InitQueueOf(TaskIds)
  /\ settings = Configured
  /\ InitProcessor

NextShutdown ==
  \/ \E t \in TaskIds, cb \in BOOLEAN : sd_pc = "running" /\ add_task(t, cb)
  \/ \E t \in TaskIds : add_task_created(t)
  \/ \E t \in TaskIds : run_task_start(t)
  \/ \E t \in TaskIds : run_task_await_coroutine(t)
  \/ \E t \in TaskIds, r \in Results : run_task_completed(t, r)
  \/ \E t \in TaskIds : run_task_raised(t)
  \/ \E t \in TaskIds : run_task_work_cancelled(t)
  \/ \E t \in TaskIds : run_task_callback(t)
  \/ \E t \in TaskIds : run_task_callback_returned(t)
  \/ \E t \in TaskIds : run_task_callback_raised(t)
  \/ \E t \in TaskIds : run_task_error_done(t)
  \/ shutdown_services
  \/ \E t \in TaskIds :
       /\ sd_pc \in {"gather", "raised"}
       /\ t \in sd_targets
       /\ cpc[t] = "idle"
       /\ cancel_task(t, t)
  \/ \E t \in TaskIds : cancel_task_awaited(t)
  \/ \E t \in TaskIds : cancel_task_discard(t)
  \/ shutdown_services_done
  \/ shutdown_services_raised

SpecShutdown == InitShutdown /\ [][NextShutdown]_vars

\* ------------------------------------------------------------ properties
Terminal(t) == t \in DOMAIN records /\ records[t].status \in TerminalStatuses

\* no cancel_task call on t is between its first and its last step
NoCancelInFlight(t) ==
  \A c \in Callers :
    ~(ctarget[c] = t /\ cpc[c] \in {"await_task", "update_cancelled"})

\* C1: once a record's status is completed, error or cancelled, no step of
\* any operation changes that status.
C1_TerminalStatusIsFinal ==
  [][\A t \in DOMAIN records :
       records[t].status \in TerminalStatuses
         => records'[t].status = records[t].status]_vars

\* C2: a cancel_task call that found an active handle does not raise, and
\* once it has returned the record is cancelled and neither a handle nor a
\* callback is left for the id.
C2_CancelActiveReturns ==
  \A c \in Callers :
    /\ cpc[c] # "raised"
    /\ clog[c] = "cancelled"
         => /\ records[ctarget[c]].status = "cancelled"
            /\ ctarget[c] \notin tasks
            /\ ctarget[c] \notin callbacks

\* C3: the first status of every record is pending, running and the terminal
\* statuses are written only after it, the task does not start before its
\* record exists, and a task whose unit of work returned and that was never
\* cancelled shows exactly pending, running, completed.
C3_StatusSequence ==
  \A t \in TaskIds :
    /\ pc[t] # "none" => t \in DOMAIN records
    /\ \A i \in 1..Len(hist[t]) : (hist[t][i] = "pending") <=> (i = 1)
    /\ \A i \in 1..Len(hist[t]) :
         hist[t][i] \in TerminalStatuses
           => \E j \in 1..(i - 1) : hist[t][j] \in {"pending", "running"}
    /\ (work_outcome[t] = "returned" /\ ~cancel_req[t])
         => hist[t] = <<"pending", "running", "completed">>

\* C4: every task for which add_task returned eventually has a record in a
\* terminal status, and so has every task with a pending cancellation
\* request.
C4_EventuallyTerminal ==
  \A t \in TaskIds :
    /\ (addpc[t] = "returned") ~> Terminal(t)
    /\ must_cancel[t] ~> Terminal(t)

C4_Witness ==
  \E t \in TaskIds :
    /\ pc[t] = "cancelled"
    /\ work_outcome[t] = "cancelled"
    /\ records[t].status = "cancelled"

\* C5: when the unit of work raised, add_task has returned normally and the
\* record ends with status error and the error message stored.
C5_FailureEndsInError ==
  \A t \in TaskIds :
    (work_outcome[t] = "raised" /\ TaskDone(t) /\ NoCancelInFlight(t))
      => /\ addpc[t] = "returned"
         /\ records[t].status = "error"
         /\ records[t].error = WorkError

\* C6 (as stated): no asyncio task that has ended, however it ended, has its
\* id in the active-handle set.
C6_NoFinishedTaskKeepsHandle ==
  \A t \in TaskIds : TaskDone(t) => t \notin tasks

\* C6 (amended): once a _run_task whose body was entered has ended (the unit
\* of work succeeded, raised or was cancelled), its id is not in the
\* active-handle set.
C6_StartedTaskDiscardsHandle ==
  \A t \in TaskIds : pc[t] \in {"done", "cancelled"} => t \notin tasks

C6_Witness ==
  \E t, u \in TaskIds :
    /\ pc[t] = "cancelled" /\ work_outcome[t] = "cancelled"
    /\ pc[u] = "done" /\ work_outcome[u] = "raised"

\* C7: cancel_task on an id without an active handle returns normally with
\* the warning and changes no record, handle or callback.
C7_CancelWithoutHandleIsNoop ==
  [][\A c \in Callers, t \in TaskIds :
       (cancel_task(c, t) /\ t \notin tasks)
         => /\ cpc'[c] = "returned"
            /\ clog'[c] = "warning"
            /\ records' = records
            /\ tasks' = tasks
            /\ callbacks' = callbacks]_vars

C7_Witness ==
  \E c \in Callers :
    /\ clog[c] = "warning"
    /\ cpc[c] = "returned"
    /\ ctarget[c] \in DOMAIN records
    /\ records[ctarget[c]].status = "completed"

\* a step of an operation on task id t
OperationOn(t) ==
  \/ TaskStep(t)
  \/ get_task_status(t)
  \/ \E c \in Callers :
       \/ cancel_task(c, t)
       \/ ctarget[c] = t /\ cancel_task_awaited(c)
       \/ ctarget[c] = t /\ cancel_task_discard(c)

\* the record, handle and callback of u are the same before and after
Untouched(u) ==
  /\ (u \in DOMAIN records) <=> (u \in DOMAIN records')
  /\ u \in DOMAIN records => records'[u] = records[u]
  /\ (u \in tasks) <=> (u \in tasks')
  /\ (u \in callbacks) <=> (u \in callbacks')

\* C8: a step of any operation on task id t leaves the record, the handle
\* and the callback of every other id unchanged.
C8_DistinctTasksIndependent ==
  [][\A t \in TaskIds :
       OperationOn(t) => \A u \in TaskIds \ {t} : Untouched(u)]_vars

C8_Witness ==
  /\ pc["a"] = "callback" /\ records["a"].status = "completed"
  /\ pc["b"] = "cancelled" /\ records["b"].status = "cancelled"
  /\ "a" \in tasks /\ "a" \in callbacks /\ "b" \notin tasks

\* what the record holds as the result of a unit of work that returned r (a
\* unit of work that returned None has no result to store)
Stored(r) == IF r = None THEN Absent ELSE r

\* C9: the callback of a task is invoked at most once, only after the unit
\* of work returned, with the returned result, and when the record already
\* shows completed with that result; never when the unit of work raised or
\* was cancelled.
C9_CallbackOnceAfterCompleted ==
  \A t \in TaskIds :
    /\ Len(cb_log[t]) <= 1
    /\ work_outcome[t] # "returned" => cb_log[t] = << >>
    /\ \A i \in 1..Len(cb_log[t]) :
         /\ cb_log[t][i].work = "returned"
         /\ cb_log[t][i].status = "completed"
         /\ cb_log[t][i].stored = Stored(cb_log[t][i].arg)
         /\ cb_log[t][i].arg = result[t]

C9_Witness ==
  \E t \in TaskIds :
    /\ Len(cb_log[t]) = 1
    /\ cb_log[t][1].arg = "r1"
    /\ pc[t] = "done"

\* C10: cleanup_old_tasks(d) deletes exactly the records with a terminal
\* status and updated_at earlier than now - d.
C10_CleanupDeletesOldTerminal ==
  [][\A d \in Days :
       cleanup_old_tasks(d)
         => /\ DOMAIN records' =
                 {t \in DOMAIN records :
                    ~(/\ records[t].status \in TerminalStatuses
                      /\ records[t].updated_at < now - d)}
            /\ \A t \in DOMAIN records' : records'[t] = records[t]]_vars

\* C11: get_task_status(id) raises the not-found error exactly when no record
\* with that task id exists, otherwise it returns the record as stored at
\* that moment; it changes no record, no handle and no callback.
C11_GetTaskStatusReadsRecord ==
  [][\A t \in TaskIds :
       get_task_status(t)
         => /\ reply'.task_id = t
            /\ (reply'.raised = "ValueError") <=> (t \notin DOMAIN records)
            /\ t \in DOMAIN records => reply'.task = {records[t]}
            /\ t \notin DOMAIN records => reply'.task = {}
            /\ records' = records /\ tasks' = tasks /\ callbacks' = callbacks]_vars

\* a status read answered a record that another task's record sits next to,
\* and a status read of an id without a record raised
C11_Witness ==
  /\ reply.task_id = "b"
  /\ reply.raised = "none"
  /\ \E r \in reply.task : r.task_id = "b" /\ r.status = "running"
  /\ "a" \in DOMAIN records

\* C12: with OVERLAP_SIZE < MAX_CHUNK_SIZE, every iteration of the
\* create_chunks loop leaves start strictly greater than it was, so the
\* loop reaches len(text) and the chunk list is finite.
C12_StartStrictlyIncreases ==
  [][(create_chunks_iterate /\ settings.OVERLAP_SIZE < settings.MAX_CHUNK_SIZE)
       => start' > start]_vars

\* C13: every chunk produced has 0 <= start_char < end_char <= len(text)
\* and a chunk_size equal to the length of its stripped text.
C13_ChunkBounds ==
  \A i \in 1..Len(chunks) :
    /\ 0 <= chunks[i].start_char
    /\ chunks[i].start_char < chunks[i].end_char
    /\ chunks[i].end_char <= Len(text)
    /\ chunks[i].chunk_size = Len(chunks[i].text)

\* the example of C14 has been segmented to the end
ExampleSegmented ==
  /\ text = ExampleText
  /\ settings = ExampleSettings
  /\ cc_pc = "returned"

\* every chunk whose window holds a '.' ends with one, and each chunk but
\* the last is followed by a chunk that starts OVERLAP_SIZE before its end
ExampleChunksShape ==
  \A i \in 1..Len(chunks) :
    /\ rfind(text, ".", chunks[i].start_char,
             chunks[i].start_char + settings.MAX_CHUNK_SIZE) >= 0
         => chunks[i].text[Len(chunks[i].text)] = "."
    /\ i < Len(chunks)
         => chunks[i + 1].start_char = chunks[i].end_char - settings.OVERLAP_SIZE

\* C14 as stated: the example text under window 40 and overlap 5 yields 4
\* chunks, each ending at a sentence boundary where its window holds one,
\* each next chunk starting 5 characters before the end of the previous one.
C14_ExampleYieldsFourChunks ==
  ExampleSegmented => Len(chunks) = 4 /\ ExampleChunksShape

\* C14, amended: the example text under window 40 and overlap 5 yields 3
\* chunks, starting at characters 0, 14 and 37, each ending at a sentence
\* boundary, each next chunk starting 5 characters before the end of the
\* previous one.
C14_ExampleYieldsThreeChunks ==
  ExampleSegmented
    => /\ Len(chunks) = 3
       /\ ExampleChunksShape
       /\ chunks[1].start_char = 0 /\ chunks[1].end_char = 19
       /\ chunks[2].start_char = 14 /\ chunks[2].end_char = 42
       /\ chunks[3].start_char = 37
       /\ chunks[3].text[Len(chunks[3].text)] = "."

C14_Witness == ExampleSegmented /\ Len(chunks) = 3

\* the node at place p of g lists an edge of this kind to the node at place q
HasEdge(g, p, q, kind) ==
  \E r \in 1..Len(g[p].relationships) :
    g[p].relationships[r] = [target |-> g[q].id, type |-> kind]

RelationKinds == {"mentioned_in", "related_to", "associated_with"}

\* C15: an analyze_document call that ends with status "success" leaves an
\* entry for each of its chunks in embeddings_store and in document_store,
\* a chunk node for each chunk and an entity node for each extracted field.
C15_IngestionFillsIndexAndGraph ==
  [][(analysis.pc = "create_chunks" /\ analysis'.pc = "done"
        /\ analysis'.status = "success")
       => /\ \A j \in 1..Len(chunks) :
               /\ \E p \in 1..Len(embeddings_store') :
                    embeddings_store'[p].id = ChunkId(now, j - 1)
               /\ \E p \in 1..Len(document_store') :
                    /\ document_store'[p].id = ChunkId(now, j - 1)
                    /\ document_store'[p].text = chunks[j].text
               /\ \E p \in 1..Len(knowledge_graph') :
                    /\ knowledge_graph'[p].id = ChunkId(now, j - 1)
                    /\ knowledge_graph'[p].type = "chunk"
                    /\ knowledge_graph'[p].text = chunks[j].text
          /\ \A f \in 1..Len(analysis.extracted_data) :
               \E p \in 1..Len(knowledge_graph') :
                 /\ knowledge_graph'[p].type = "entity"
                 /\ knowledge_graph'[p].key = analysis.extracted_data[f].key
                 /\ knowledge_graph'[p].value = analysis.extracted_data[f].value]_vars

\* C16: after any sequence of ingestions, a node lists an edge of some kind
\* to another node if and only if that node lists an edge of the same kind
\* back to it.
C16_EdgesSymmetric ==
  \A p, q \in 1..Len(knowledge_graph) :
    \A kind \in RelationKinds :
      HasEdge(knowledge_graph, p, q, kind) <=> HasEdge(knowledge_graph, q, p, kind)

\* C17: between two ingestions, an entity node and a chunk node are linked
\* by a mentioned_in edge if and only if the entity's value occurs in the
\* chunk's text, case ignored, whichever of the two was inserted first.
C17_MentionedInIffSubstring ==
  cc_pc = "idle" =>
    \A p, q \in 1..Len(knowledge_graph) :
      (knowledge_graph[p].type = "entity" /\ knowledge_graph[q].type = "chunk")
        => ((HasEdge(knowledge_graph, p, q, "mentioned_in")
               \/ HasEdge(knowledge_graph, q, p, "mentioned_in"))
            <=> Contains(lower(knowledge_graph[q].text),
                         lower(knowledge_graph[p].value)))

\* C18: a _knowledge_graph_search(entities, k) returns at most k texts, none
\* of them twice, each the text of a chunk node that an entity node whose
\* value holds one of the entity strings, case ignored, lists an edge to.
C18_GraphSearchResult ==
  [][(search_log' # search_log /\ search_log'.op = "knowledge_graph")
         => LET res == search_log'.result
                entities == search_log'.entities
                k == search_log'.k
                g == knowledge_graph
            IN  /\ Len(res) <= k
                /\ \A i, j \in 1..Len(res) : i # j => res[i] # res[j]
                /\ \A i \in 1..Len(res) :
                     \E p, q \in 1..Len(g) :
                       /\ g[p].type = "entity"
                       /\ \E e \in 1..Len(entities) :
                            Contains(lower(g[p].value), lower(entities[e]))
                       /\ g[q].type = "chunk"
                       /\ g[q].text = res[i]
                       /\ \E kind \in RelationKinds : HasEdge(g, p, q, kind)]_vars

Range(s) == {s[i] : i \in 1..Len(s)}
FirstIndex(s, x) == MinOf({i \in 1..Len(s) : s[i] = x})

\* C19: _hybrid_search returns at most k texts, none of them twice: the
\* first k of the distinct texts of the vector results and of the graph
\* results, the vector results in their order first, then the texts only
\* the graph search found, in their order.
C19_HybridVectorFirst ==
  search_log.op = "hybrid" =>
    LET res == search_log.result
        V == search_log.vector_results
        G == search_log.graph_results
        k == search_log.k
        all == Range(V) \cup Range(G)
    IN  /\ Len(res) <= k
        /\ Len(res) = IF Cardinality(all) < k THEN Cardinality(all) ELSE k
        /\ Range(res) \subseteq all
        /\ \A i, j \in 1..Len(res) :
             i < j =>
               /\ res[i] # res[j]
               /\ res[j] \in Range(V) => res[i] \in Range(V)
               /\ (res[i] \in Range(V) /\ res[j] \in Range(V))
                    => FirstIndex(V, res[i]) < FirstIndex(V, res[j])
               /\ (res[i] \notin Range(V) /\ res[j] \notin Range(V))
                    => FirstIndex(G, res[i]) < FirstIndex(G, res[j])

\* a hybrid search returned a vector result followed by a text only the
\* graph search had found, the two searches having a text in common
C19_Witness ==
  /\ search_log.op = "hybrid"
  /\ Len(search_log.result) = 2
  /\ search_log.result[1] \in Range(search_log.vector_results)
  /\ search_log.result[1] \in Range(search_log.graph_results)
  /\ search_log.result[2] \in Range(search_log.graph_results)
  /\ search_log.result[2] \notin Range(search_log.vector_results)

\* the stored embedding under an id, and the id's place in insertion order
EmbeddingOf(id) ==
  embeddings_store[CHOOSE p \in 1..Len(embeddings_store) :
                     embeddings_store[p].id = id].embedding
PlaceOf(id) ==
  CHOOSE p \in 1..Len(embeddings_store) : embeddings_store[p].id = id

C26_ResultAndErrorMatchStatus ==
  \A t \in DOMAIN records :
    /\ records[t].result # Absent => records[t].status = "completed"
    /\ records[t].error # Absent => records[t].status = "error"
    /\ ~(records[t].result # Absent /\ records[t].error # Absent)

\* C29: once a task's record has a terminal status and its handle is gone
\* from self.tasks, no callback is registered under its id.
C29_NoCallbackForFinishedTask ==
  \A t \in TaskIds :
    (Terminal(t) /\ t \notin tasks) => t \notin callbacks

\* C28: between two ingestions no relationship list holds the same
\* (target, type) entry twice, and _create_relationships run once more on
\* the graph as it is leaves every relationship list as it is.
C28_RelationshipsIdempotent ==
  cc_pc = "idle" =>
    /\ \A p \in 1..Len(knowledge_graph) :
         \A i, j \in 1..Len(knowledge_graph[p].relationships) :
           i # j => knowledge_graph[p].relationships[i]
                      # knowledge_graph[p].relationships[j]
    /\ _create_relationships(knowledge_graph) = knowledge_graph

\* C23: after an ingestion handed a market_context to _update_market_data,
\* the cache entry of that context's key holds that context's data.
C23_CacheHoldsLatestUpdate ==
  (analysis.extractor /\ analysis.market_context # NoContext) =>
    \E p \in 1..Len(market_data_cache) :
      /\ market_data_cache[p].key = MarketKey(analysis.market_context)
      /\ market_data_cache[p].data = analysis.market_context

\* C22: a query whose enhancement call fails while the cache holds an entry
\* returns, with the answer of the first completion.
C22_EnhancementFailureFallsBack ==
  (query_log.failure = "enhancement" /\ query_log.cache_entries > 0) =>
    /\ query_log.outcome = "returned"
    /\ query_log.answer \in Answers

\* C21: no query that returns has computed an undefined similarity: not in
\* the vector search, not in the ordering of the context documents, not in
\* the confidence.
C21_NoUndefinedSimilarity ==
  query_log.outcome = "returned" =>
    /\ \A p \in 1..Len(query_log.similarities) :
         ~query_log.similarities[p].nan
    /\ \A p \in 1..Len(query_log.doc_scores) : ~query_log.doc_scores[p].nan
    /\ ~query_log.confidence.nan

\* C25 as stated: a query that returns under context_type "vector" gives
\* the vector results, under "graph" the graph results, under "hybrid" the
\* merged results.
C25_ModesByName ==
  query_log.outcome = "returned" =>
    /\ query_log.context_type = "vector" =>
         query_log.source_documents = query_log.vector_results
    /\ query_log.context_type = "graph" =>
         query_log.source_documents = query_log.graph_results
    /\ query_log.context_type = "hybrid" =>
         query_log.source_documents =
           Take(Deduplicate(query_log.vector_results
                              \o query_log.graph_results), query_log.k)

\* C25: a query that returns under context_type "knowledge_graph" gives
\* the graph results, under "hybrid" the merged results, and under every
\* other context_type, "vector" and "graph" among them, the vector
\* results.
C25_ModesAsDispatched ==
  query_log.outcome = "returned" =>
    /\ query_log.context_type = "knowledge_graph" =>
         query_log.source_documents = query_log.graph_results
    /\ query_log.context_type = "hybrid" =>
         query_log.source_documents =
           Take(Deduplicate(query_log.vector_results
                              \o query_log.graph_results), query_log.k)
    /\ query_log.context_type \notin {"knowledge_graph", "hybrid"} =>
         query_log.source_documents = query_log.vector_results

C25_Witness ==
  /\ query_log.outcome = "returned"
  /\ query_log.context_type = "knowledge_graph"
  /\ query_log.source_documents # << >>
  /\ query_log.source_documents # query_log.vector_results

\* C27: of the tasks created for the document by its reprocess requests, at
\* most one holds an execution handle.
C27_OneActiveTaskPerDocument == Cardinality(tasks) <= 1

\* C30: shutdown_services does not raise, and when it has ended no task
\* it listed holds a handle and each of them has a record of status
\* cancelled.
C30_ShutdownCancelsAll ==
  /\ sd_pc # "raised"
  /\ sd_pc = "done" =>
       \A t \in sd_targets :
         t \notin tasks /\ records[t].status = "cancelled"

\* a unit of work that is inside analyze_document, its graph part-way
PartWay(t) == ing_pc[t] \in {"nodes", "relationships"}

\* C24: no two ingestion tasks are part-way through analyze_document at the
\* same time, whichever processor each of them mutates.
C24_IngestionsMutuallyExclusive ==
  \A t1, t2 \in TaskIds : t1 # t2 => ~(PartWay(t1) /\ PartWay(t2))

C24_Witness ==
  \E t1, t2 \in TaskIds :
    /\ t1 # t2
    /\ PartWay(t1)
    /\ t2 \in tasks
    /\ pc[t2] \in {"created", "update_running", "coroutine"}

====
